---- MODULE Spec2Model ----
(***************************************************************************)
(* Model of the property scanner of src/scrapper.py: the filter engine     *)
(* (_meets_criteria), the dedup store and filter_listings, the             *)
(* orchestration of fetch_listings / run_scraper, the notifier             *)
(* (notify_user) and the site adapters (build_url, get_sort_parameter,     *)
(* fetch_listings, parse_listings).                                        *)
(*                                                                         *)
(* Python values are represented as follows.                               *)
(*   - a text is a sequence of one-character strings;                      *)
(*   - an optional value (a dict key that may be absent, a config entry    *)
(*     that may be None) is <<>> when absent and <<v>> when present;       *)
(*   - a price / bedrooms value is a record [k, v, s]: k = "int" with the  *)
(*     integer v, k = "str" with the text s, k = "none" for None.          *)
(***************************************************************************)
EXTENDS Integers, Sequences, FiniteSets, TLC

VARIABLES
  config,         \* self.config: [filters, bypass, sites]
  seen_listings,  \* self.seen_listings: id -> timestamp
  seen_file,      \* content of seen_listings.csv: id -> timestamp
  clock,          \* datetime.now()
  mc_listing,     \* argument of the last _meets_criteria call (<<>>: none yet)
  mc_result,      \* its result: "none", "true", "false"
  fl_input,       \* argument of the last filter_listings call
  fl_output,      \* the list it returned
  fl_before,      \* self.seen_listings when that call started
  fl_status,      \* "none", "returned", "raised"
  fl_repeat,      \* the last call had the same argument as the call before it
  pc,             \* position of run_scraper
  sites,          \* fetch_listings: the resolved site names
  site_idx,       \* fetch_listings: sites processed so far
  all_listings,   \* fetch_listings: all_listings
  outcomes,       \* what each processed site's adapter did (environment)
  filtered_listings, \* run_scraper: filtered_listings
  trace,          \* stages run_scraper has completed, in order
  notified,       \* arguments of the notify_user calls made
  log,            \* logger.warning / logger.error records, in order
  run_result,     \* "none", "returned", "propagated", "exit_1"
  entry,          \* the script that started the process
  config_file,    \* the parsed config file (<<>>: cannot be read or parsed)
  pl_doc,         \* the document handed to the adapters' parse_listings
  pl_results,     \* adapter name -> what its parse_listings call did
  url_adapter,    \* the adapter whose build_url is called (<<>>: none)
  url_params,     \* the config's settings for that adapter's site
  url_results,    \* sort preference -> sort fragment and URL built under it
  ft_adapter,     \* the adapter whose fetch_listings is called (<<>>: none)
  ft_pc,          \* position of that fetch_listings call
  ft_events,      \* what the call has done so far: sleeps and requests
  ft_result,      \* what the call returned (<<>>: nothing yet)
  pr_pc,          \* two scanner processes: position of each
  pr_loaded,      \* two scanner processes: what each loaded, and when
  pr_seen,        \* two scanner processes: self.seen_listings of each
  pr_saved,       \* two scanner processes: which saved, in order
  pl_again,       \* adapter name -> what its second parse of pl_doc did
  st_type,        \* self.sort_type, handed to every adapter (<<>>: no scanner)
  st_fragments,   \* adapter name -> what its get_sort_parameter() returned
  nt_listings,    \* argument of the notify_user call (<<>>: no call)
  nt_email,       \* what becomes of the e-mail in that call (environment)
  nt_console,     \* what the call has printed, in order
  nt_result       \* "none", "returned", "raised"

vars == <<config, seen_listings, seen_file, clock, mc_listing, mc_result,
          fl_input, fl_output, fl_before, fl_status, fl_repeat, pc, sites,
          site_idx, all_listings, outcomes, filtered_listings, trace,
          notified, log, run_result, entry, config_file, pl_doc, pl_results,
          url_adapter, url_params, url_results, ft_adapter, ft_pc, ft_events,
          ft_result, pr_pc, pr_loaded, pr_seen, pr_saved, pl_again, st_type,
          st_fragments, nt_listings, nt_email, nt_console, nt_result>>

-----------------------------------------------------------------------------
(* Texts *)

Uppers == <<"A","B","C","D","E","F","G","H","I","J","K","L","M",
            "N","O","P","Q","R","S","T","U","V","W","X","Y","Z">>
Lowers == <<"a","b","c","d","e","f","g","h","i","j","k","l","m",
            "n","o","p","q","r","s","t","u","v","w","x","y","z">>

UpperSet == {Uppers[i] : i \in 1..Len(Uppers)}
LowerMap == [c \in UpperSet |-> Lowers[CHOOSE i \in 1..Len(Uppers) : Uppers[i] = c]]

\* str.lower() on one character
LowerChar(c) == IF c \in UpperSet THEN LowerMap[c] ELSE c

\* str.lower()
Lower(s) == [i \in 1..Len(s) |-> LowerChar(s[i])]

\* Python's  k in t  on strings
IsSubstring(k, t) ==
  \E i \in 0..(Len(t) - Len(k)) : SubSeq(t, i + 1, i + Len(k)) = k

\* dict.get(key, default) on an optional value
Get(opt, default) == IF opt = <<>> THEN default ELSE opt[1]

-----------------------------------------------------------------------------
(* int() *)

PInt(n) == [k |-> "int", v |-> n, s |-> <<>>]
PStr(t) == [k |-> "str", v |-> 0, s |-> t]
PNone   == [k |-> "none", v |-> 0, s |-> <<>>]

Digits == <<"0","1","2","3","4","5","6","7","8","9">>
IsDigit(c) == \E i \in 1..Len(Digits) : Digits[i] = c
DigitVal(c) == (CHOOSE i \in 1..Len(Digits) : Digits[i] = c) - 1

RECURSIVE StripLeft(_)
StripLeft(s) ==
  IF s # <<>> /\ Head(s) = " " THEN StripLeft(Tail(s)) ELSE s

RECURSIVE StripRight(_)
StripRight(s) ==
  IF s # <<>> /\ s[Len(s)] = " " THEN StripRight(SubSeq(s, 1, Len(s) - 1)) ELSE s

RECURSIVE DigitsValue(_)
DigitsValue(s) ==
  IF s = <<>> THEN 0
  ELSE 10 * DigitsValue(SubSeq(s, 1, Len(s) - 1)) + DigitVal(s[Len(s)])

\* int(x): [ok |-> TRUE, val |-> n], or [ok |-> FALSE, val |-> 0] for the
\* ValueError / TypeError that _meets_criteria catches.  Decimal literals
\* with surrounding blanks are parsed; signs and underscores are not modelled.
PyInt(x) ==
  IF x.k = "int" THEN [ok |-> TRUE, val |-> x.v]
  ELSE IF x.k = "str" THEN
    LET t == StripRight(StripLeft(x.s)) IN
    IF t # <<>> /\ \A i \in 1..Len(t) : IsDigit(t[i])
      THEN [ok |-> TRUE, val |-> DigitsValue(t)]
      ELSE [ok |-> FALSE, val |-> 0]
  ELSE [ok |-> FALSE, val |-> 0]

-----------------------------------------------------------------------------
(* Listings and filters *)

Listing(id, title, address, description, price, bedrooms) ==
  [id |-> id, title |-> title, address |-> address,
   description |-> description, price |-> price, bedrooms |-> bedrooms]

\* the empty dict: Python's  not listing
IsEmptyDict(l) ==
  /\ l.id = <<>> /\ l.title = <<>> /\ l.address = <<>>
  /\ l.description = <<>> /\ l.price = <<>> /\ l.bedrooms = <<>>

Filters(keywords, exclude_keywords, min_price, max_price, min_beds, max_beds) ==
  [keywords |-> keywords, exclude_keywords |-> exclude_keywords,
   min_price |-> min_price, max_price |-> max_price,
   min_beds |-> min_beds, max_beds |-> max_beds]

\* f"{title} {address} {description}".lower()
ListingText(l) ==
  Lower(Get(l.title, <<>>) \o <<" ">> \o Get(l.address, <<>>)
        \o <<" ">> \o Get(l.description, <<>>))

\* for keyword in exclude_keywords: if keyword.lower() in listing_text
ExcludeHit_CaseSensitive(l, f) ==
  \E i \in 1..Len(Get(f.exclude_keywords, <<>>)) :
    IsSubstring(Get(f.exclude_keywords, <<>>)[i], ListingText(l))

ExcludeHit(l, f) ==
  \E i \in 1..Len(Get(f.exclude_keywords, <<>>)) :
    IsSubstring(Lower(Get(f.exclude_keywords, <<>>)[i]), ListingText(l))

\* if keywords: if not any(keyword.lower() in listing_text ...)
KeywordMiss_NoGuard(l, f) ==
  LET keywords == Get(f.keywords, <<>>) IN
  /\ ~ \E i \in 1..Len(keywords) : IsSubstring(Lower(keywords[i]), ListingText(l))

KeywordMiss(l, f) ==
  LET keywords == Get(f.keywords, <<>>) IN
  /\ keywords # <<>>
  /\ ~ \E i \in 1..Len(keywords) : IsSubstring(Lower(keywords[i]), ListingText(l))

\* the bound check shared by the price and the bedrooms blocks: value is
\* listing.get(field, 0); the try block rejects, the except passes
BoundReject_FailClosed(value, lo, hi) ==
  /\ (lo # <<>> \/ hi # <<>>)
  /\ LET n == PyInt(Get(value, PInt(0))) IN
     \/ ~ n.ok
     \/ (lo # <<>> /\ n.val < lo[1])
     \/ (hi # <<>> /\ n.val > hi[1])

BoundReject_AbsentSkips(value, lo, hi) ==
  /\ (lo # <<>> \/ hi # <<>>)
  /\ value # <<>>
  /\ LET n == PyInt(value[1]) IN
     /\ n.ok
     /\ \/ (lo # <<>> /\ n.val < lo[1])
        \/ (hi # <<>> /\ n.val > hi[1])

BoundReject(value, lo, hi) ==
  /\ (lo # <<>> \/ hi # <<>>)
  /\ LET n == PyInt(Get(value, PInt(0))) IN
     /\ n.ok
     /\ \/ (lo # <<>> /\ n.val < lo[1])
        \/ (hi # <<>> /\ n.val > hi[1])

PriceReject(l, f) == BoundReject(l.price, f.min_price, f.max_price)

BedsReject(l, f) == BoundReject(l.bedrooms, f.min_beds, f.max_beds)

\* PropertyScanner._meets_criteria
MeetsCriteria_KeywordShortcut(l, f) ==
  IF IsEmptyDict(l) THEN FALSE
  ELSE IF ExcludeHit(l, f) THEN FALSE
  ELSE IF KeywordMiss(l, f) THEN FALSE
  ELSE IF Get(f.keywords, <<>>) # <<>> THEN TRUE
  ELSE IF PriceReject(l, f) THEN FALSE
  ELSE IF BedsReject(l, f) THEN FALSE
  ELSE TRUE

MeetsCriteria_NoBeds(l, f) ==
  IF IsEmptyDict(l) THEN FALSE
  ELSE IF ExcludeHit(l, f) THEN FALSE
  ELSE IF KeywordMiss(l, f) THEN FALSE
  ELSE IF PriceReject(l, f) THEN FALSE
  ELSE TRUE

MeetsCriteria(l, f) ==
  IF IsEmptyDict(l) THEN FALSE
  ELSE IF ExcludeHit(l, f) THEN FALSE
  ELSE IF KeywordMiss(l, f) THEN FALSE
  ELSE IF PriceReject(l, f) THEN FALSE
  ELSE IF BedsReject(l, f) THEN FALSE
  ELSE TRUE

-----------------------------------------------------------------------------
(* The dedup store and filter_listings *)

\* self.seen_listings[id] = datetime.now().isoformat()
Register_Reset(seen, id, now) == [x \in {id} |-> now]

Register(seen, id, now) ==
  [x \in (DOMAIN seen) \cup {id} |-> IF x = id THEN now ELSE seen[x]]

\* if listing['id'] in self.seen_listings and not bypass_seen_check: continue
SkipSeen_IgnoreBypass(l, seen, bypass) == l.id[1] \in DOMAIN seen

SkipSeen_Never(l, seen, bypass) == FALSE

SkipSeen(l, seen, bypass) == l.id[1] \in DOMAIN seen /\ ~ bypass

\* the body of the loop for a listing that passed the criteria
Accept_Prepend(acc, l, now) ==
  [acc EXCEPT !.out = <<l>> \o @, !.seen = Register(@, l.id[1], now)]

Accept_NoRegister(acc, l, now) ==
  [acc EXCEPT !.out = Append(@, l)]

Accept(acc, l, now) ==
  [acc EXCEPT !.out = Append(@, l), !.seen = Register(@, l.id[1], now)]

\* for listing in listings: ... ; a listing without 'id' raises KeyError
RECURSIVE FilterLoop(_, _, _, _, _)
FilterLoop(listings, acc, f, bypass, now) ==
  IF listings = <<>> THEN acc
  ELSE LET l == Head(listings) IN
    IF l.id = <<>> THEN [acc EXCEPT !.raised = TRUE]
    ELSE IF SkipSeen(l, acc.seen, bypass)
      THEN FilterLoop(Tail(listings), acc, f, bypass, now)
    ELSE IF MeetsCriteria(l, f)
      THEN FilterLoop(Tail(listings), Accept(acc, l, now), f, bypass, now)
    ELSE FilterLoop(Tail(listings), acc, f, bypass, now)

\* self.config.get("debug", {}).get("bypass_seen_check", False)
BypassSeenCheck(cfg) == Get(cfg.bypass, FALSE)

\* PropertyScanner.filter_listings: [out, seen, raised]
FilterListings(listings, seen, cfg, now) ==
  FilterLoop(listings, [out |-> <<>>, seen |-> seen, raised |-> FALSE],
             cfg.filters, BypassSeenCheck(cfg), now)

-----------------------------------------------------------------------------
(* Input values *)

T_StudentHouse == <<"S","t","u","d","e","n","t"," ","h","o","u","s","e">>
T_Flat         == <<"F","l","a","t">>
T_At           == <<"a","t">>
T_ForStudents  == <<"f","o","r"," ","S","T","U","D","E","N","T","S">>
K_student      == <<"s","t","u","d","e","n","t">>
K_House        == <<"H","O","U","S","E">>
K_TAt          == <<"t"," ","A","T">>
K_Garden       == <<"g","a","r","d","e","n">>

P_900s  == PStr(<<"9","0","0">>)
P_1300s == PStr(<<" ","1","3","0","0"," ">>)
P_POA   == PStr(<<"P","O","A">>)

NoFilters == Filters(<<>>, <<>>, <<>>, <<>>, <<>>, <<>>)

EmptyDict == Listing(<<>>, <<>>, <<>>, <<>>, <<>>, <<>>)

TitleVals == {<<>>, <<T_StudentHouse>>, <<T_Flat>>}
AddressVals == {<<>>, <<T_At>>}
DescriptionVals == {<<>>, <<T_ForStudents>>}
PriceVals ==
  {<<>>} \cup {<<p>> : p \in {PNone, P_900s, P_1300s, P_POA}}
         \cup {<<PInt(n)>> : n \in {799, 800, 900, 1200, 1201, 1300}}
BedroomVals ==
  {<<>>} \cup {<<P_POA>>} \cup {<<PInt(n)>> : n \in {0, 1, 3}}

CriteriaListings ==
  {EmptyDict} \cup
  {Listing(<<"rm-1">>, t, a, d, p, b) :
     t \in TitleVals, a \in AddressVals, d \in DescriptionVals,
     p \in PriceVals, b \in BedroomVals}

\* filters.get("keywords", []) / filters.get("exclude_keywords", [])
KeywordLists ==
  {<<>>, <<<<>>>>, <<<<K_student>>>>, <<<<K_Garden, K_House>>>>, <<<<K_TAt>>>>}
ExcludeLists ==
  {<<>>, <<<<K_student>>>>, <<<<K_Garden, K_House>>>>, <<<<K_TAt>>>>}
\* <<min, max>>, each None or a number
PriceBounds ==
  {<< <<>>, <<>> >>, << <<800>>, <<>> >>, << <<>>, <<1200>> >>,
   << <<800>>, <<1200>> >>}
BedBounds ==
  {<< <<>>, <<>> >>, << <<1>>, <<>> >>, << <<1>>, <<2>> >>}

CriteriaFilters ==
  {Filters(kw, ex, pb[1], pb[2], bb[1], bb[2]) :
     kw \in KeywordLists, ex \in ExcludeLists,
     pb \in PriceBounds, bb \in BedBounds}

-----------------------------------------------------------------------------
(* State shared by the specifications *)

NoRun ==
  /\ pc = "idle" /\ sites = <<>> /\ site_idx = 0 /\ all_listings = <<>>
  /\ outcomes = <<>> /\ filtered_listings = <<>> /\ trace = <<>>
  /\ notified = <<>> /\ log = <<>> /\ run_result = "none"

NoFilterCall ==
  /\ fl_input = <<>> /\ fl_output = <<>> /\ fl_before = <<>>
  /\ fl_status = "none" /\ fl_repeat = FALSE

NoCriteriaCall == mc_listing = <<>> /\ mc_result = "none"

runVars == <<pc, sites, site_idx, all_listings, outcomes, filtered_listings,
             trace, notified, log, run_result>>
filterVars == <<fl_input, fl_output, fl_before, fl_status, fl_repeat>>
criteriaVars == <<mc_listing, mc_result>>
storeVars == <<seen_listings, seen_file, clock>>
entryVars == <<entry, config_file>>

parseVars == <<pl_doc, pl_results, pl_again>>
urlVars == <<url_adapter, url_params, url_results>>
fetchVars == <<ft_adapter, ft_pc, ft_events, ft_result>>
sortVars == <<st_type, st_fragments>>
adapterVars == <<parseVars, urlVars, fetchVars, sortVars>>
notifyVars == <<nt_listings, nt_email, nt_console, nt_result>>
pairVars == <<pr_pc, pr_loaded, pr_seen, pr_saved>>

NoParseCall == pl_doc = <<>> /\ pl_results = <<>> /\ pl_again = <<>>
NoUrlCall == url_adapter = <<>> /\ url_params = <<>> /\ url_results = <<>>
NoFetchCall ==
  ft_adapter = <<>> /\ ft_pc = "none" /\ ft_events = <<>> /\ ft_result = <<>>

NoSortCall == st_type = <<>> /\ st_fragments = <<>>

\* no adapter method has been called
NoAdapterCall == NoParseCall /\ NoUrlCall /\ NoFetchCall /\ NoSortCall

NoNotifyCall ==
  /\ nt_listings = <<>> /\ nt_email = "none" /\ nt_console = <<>>
  /\ nt_result = "none"

\* a single scanner process
NoPair ==
  pr_pc = <<>> /\ pr_loaded = <<>> /\ pr_seen = <<>> /\ pr_saved = <<>>

\* a scanner constructed by app.py's index() from a config file that loaded
ConstructedByApp ==
  /\ entry = "app.py" /\ config_file = <<config>>
  /\ NoAdapterCall /\ NoPair /\ NoNotifyCall

-----------------------------------------------------------------------------
(* SpecCriteria: _meets_criteria applied to listings under a fixed config *)

InitCriteria ==
  /\ config \in {[filters |-> f, bypass |-> <<>>, sites |-> <<>>] :
                   f \in CriteriaFilters}
  /\ mc_listing \in {<<l>> : l \in CriteriaListings}
  /\ mc_result = "none"
  /\ seen_listings = <<>> /\ seen_file = <<>> /\ clock = 0
  /\ ConstructedByApp
  /\ NoFilterCall /\ NoRun

\* self._meets_criteria(listing)
CallMeetsCriteria ==
  /\ mc_result = "none"
  /\ mc_result' = IF MeetsCriteria(mc_listing[1], config.filters)
                    THEN "true" ELSE "false"
  /\ UNCHANGED <<config, entryVars, notifyVars, adapterVars, pairVars, mc_listing, storeVars, filterVars, runVars>>

NextCriteria == CallMeetsCriteria

SpecCriteria == InitCriteria /\ [][NextCriteria]_vars

-----------------------------------------------------------------------------
(* SpecFilter: filter_listings called repeatedly on one scanner *)

MaxLen == 3      \* longest list handed to filter_listings
MaxClock == 1    \* latest instant datetime.now() returns

\* the filter scenario's listings, one that repeats an id, one without id
L_900  == Listing(<<"rm-1">>, <<T_Flat>>, <<>>, <<>>, <<PInt(900)>>, <<PInt(1)>>)
L_1300 == Listing(<<"rm-2">>, <<T_Flat>>, <<>>, <<>>, <<PInt(1300)>>, <<PInt(1)>>)
L_1100 == Listing(<<"rm-3">>, <<T_StudentHouse>>, <<>>, <<>>, <<PInt(1100)>>, <<PInt(2)>>)
L_Dup  == Listing(<<"rm-1">>, <<T_StudentHouse>>, <<>>, <<>>, <<P_POA>>, <<>>)
L_NoId == Listing(<<>>, <<T_Flat>>, <<>>, <<>>, <<PInt(900)>>, <<PInt(1)>>)

FilterPool == {L_900, L_1300, L_1100, L_Dup, L_NoId}
Ids == {"rm-1", "rm-2", "rm-3"}

SeqsUpTo(S, n) == UNION {[1..k -> S] : k \in 0..n}

\* filters: {min_beds: 1, max_beds: 2, max_price: 1200}
ScenarioFilters == Filters(<<>>, <<>>, <<>>, <<1200>>, <<1>>, <<2>>)
StudentFilters == Filters(<<>>, << <<K_student>> >>, <<>>, <<>>, <<>>, <<>>)
HouseFilters == Filters(<< <<K_House>> >>, <<>>, <<800>>, <<>>, <<>>, <<>>)

FilterConfigs ==
  {[filters |-> f, bypass |-> b, sites |-> <<>>] :
     f \in {NoFilters, ScenarioFilters, StudentFilters, HouseFilters},
     b \in {<<>>, <<TRUE>>}}

\* a store loaded from seen_listings.csv: any ids, registered at instant 0
Stores == UNION {[K -> {0}] : K \in SUBSET Ids}

\* the caller holds one list of listings (fl_input) and hands it to
\* filter_listings again and again; what calls with other lists leave behind
\* is the store, which starts as any store
InitFilter ==
  /\ config \in FilterConfigs
  /\ seen_listings \in Stores
  /\ seen_file = seen_listings
  /\ clock = 0
  /\ fl_input \in SeqsUpTo(FilterPool, MaxLen)
  /\ fl_output = <<>> /\ fl_before = <<>>
  /\ fl_status = "none" /\ fl_repeat = FALSE
  /\ ConstructedByApp
  /\ NoCriteriaCall /\ NoRun

\* scanner.filter_listings(fl_input), at instant now
CallFilterListings ==
  \E now \in clock..MaxClock :
    \E r \in {FilterListings(fl_input, seen_listings, config, now)} :
    /\ fl_before' = seen_listings
    /\ fl_repeat' = (fl_status # "none")
    /\ fl_status' = IF r.raised THEN "raised" ELSE "returned"
    /\ fl_output' = IF r.raised THEN <<>> ELSE r.out
    /\ seen_listings' = r.seen
    /\ clock' = now
    /\ UNCHANGED <<config, entryVars, notifyVars, adapterVars, pairVars, fl_input, seen_file, criteriaVars, runVars>>

NextFilter == CallFilterListings

SpecFilter == InitFilter /\ [][NextFilter]_vars

-----------------------------------------------------------------------------
(* fetch_listings and run_scraper *)

N_rightmove   == <<"r","i","g","h","t","m","o","v","e">>
N_zoopla      == <<"z","o","o","p","l","a">>
N_spareroom   == <<"s","p","a","r","e","r","o","o","m">>
N_onthemarket == <<"o","n","t","h","e","m","a","r","k","e","t">>
N_openrent    == <<"o","p","e","n","r","e","n","t">>
N_Zoopla      == <<"Z","o","o","p","l","a">>
N_gumtree     == <<"g","u","m","t","r","e","e">>

\* the keys of self.adapters
AdapterNames == {N_rightmove, N_zoopla, N_spareroom, N_onthemarket, N_openrent}

\* one entry of config["sites"]: a dict with an optional "enabled", or
\* some other JSON value (kind "other"), on which .get raises
Site(name, enabled) == [name |-> name, kind |-> "dict", enabled |-> enabled]
BadSite(name) == [name |-> name, kind |-> "other", enabled |-> <<>>]

\* if site_config.get("enabled", True): enabled_sites.append(site_name)
RECURSIVE EnabledNames_ExplicitOnly(_)
EnabledNames_ExplicitOnly(entries) ==
  IF entries = <<>> THEN <<>>
  ELSE IF Get(Head(entries).enabled, FALSE)
    THEN <<Head(entries).name>> \o EnabledNames_ExplicitOnly(Tail(entries))
    ELSE EnabledNames_ExplicitOnly(Tail(entries))

RECURSIVE EnabledNames(_)
EnabledNames(entries) ==
  IF entries = <<>> THEN <<>>
  ELSE IF Get(Head(entries).enabled, TRUE)
    THEN <<Head(entries).name>> \o EnabledNames(Tail(entries))
    ELSE EnabledNames(Tail(entries))

\* PropertyScanner._get_enabled_sites: [raised, sites]
GetEnabledSites(cfg) ==
  LET entries == Get(cfg.sites, <<>>) IN
  IF \E i \in 1..Len(entries) : entries[i].kind # "dict"
    THEN [raised |-> TRUE, sites |-> <<>>]
  ELSE IF EnabledNames(entries) = <<>>
    THEN [raised |-> FALSE, sites |-> <<N_rightmove>>]
    ELSE [raised |-> FALSE, sites |-> EnabledNames(entries)]

\* what the adapter stages of one site do: the stage that raises, or "ok"
\* with the listings parse_listings returns
Outcome(kind, listings) == [kind |-> kind, listings |-> listings]

SiteParses == {<<>>, <<L_900, L_1300>>, <<L_1100>>, <<L_NoId>>}

StageOutcomes ==
  {Outcome(k, <<>>) : k \in {"build_url_raises", "fetch_raises", "parse_raises"}}
    \cup {Outcome("ok", ls) : ls \in SiteParses}

\* self.adapters.get(site_name.lower())
HasAdapter(site) == Lower(site) \in AdapterNames

\* all_listings.extend(site_listings)
ExtendAll_Overwrite(all, site_listings) == site_listings

ExtendAll(all, site_listings) == all \o site_listings

\* the index of the next site after one whose stage raised: the except
\* clause is inside the loop, which goes on
AfterSiteError_Abort(idx, n) == n

AfterSiteError(idx, n) == idx + 1

\* the except clause of run_scraper: log, return None
OnRunException_Reraise == "propagated"

OnRunException == "returned"

\* the notify_user calls run_scraper makes for its filtered listings: the
\* call is commented out, only the two logger.info lines remain
NotifyCalls(filtered) == <<>>

Warn(about) == [level |-> "warning", about |-> about]
Err(about) == [level |-> "error", about |-> about]

\* run_scraper ends in its except clause
RunFails ==
  /\ pc' = "done"
  /\ run_result' = OnRunException
  /\ log' = Append(log, Err(<<"run">>))

\* the scripts that construct a scanner and call run_scraper: run_scraper.py
\* loads the config file itself first; scrapper.py run as a script (and
\* app.py's /run_scraper route) constructs the scanner directly
EntryPoints == {"run_scraper.py", "scrapper.py"}

\* the config {}
EmptyConfig == [filters |-> NoFilters, bypass |-> <<>>, sites |-> <<>>]

\* PropertyScanner._load_config: the parsed file; open or json.load raising
\* is caught and logged, and {} is returned
LoadConfig(file) == IF file = <<>> THEN EmptyConfig ELSE file[1]

\* run_scraper.py main: config = load_config(args.config), which prints the
\* error and calls sys.exit(1) when the file cannot be read or parsed
CliLoadConfig ==
  /\ pc = "start"
  /\ entry = "run_scraper.py"
  /\ IF config_file = <<>>
       THEN pc' = "exited" /\ run_result' = "exit_1"
       ELSE pc' = "construct" /\ UNCHANGED run_result
  /\ UNCHANGED <<config, entryVars, notifyVars, adapterVars, pairVars, storeVars, filterVars, criteriaVars, sites,
                 site_idx, all_listings, outcomes, filtered_listings, trace,
                 notified, log>>

\* PropertyScanner.__init__: self.config = self._load_config(config_path);
\* self.seen_listings = self._load_seen_listings(), which is the content of
\* seen_listings.csv, or {} when the file is missing or reading it raises
\* (caught and logged)
Construct ==
  /\ \/ pc = "construct"
     \/ pc = "start" /\ entry # "run_scraper.py"
  /\ config' = LoadConfig(config_file)
  /\ \E load_raises \in BOOLEAN :
       /\ seen_listings' = IF load_raises THEN <<>> ELSE seen_file
       /\ log' = log
                  \o (IF config_file = <<>> THEN <<Err(<<"config">>)>> ELSE <<>>)
                  \o (IF load_raises THEN <<Err(<<"load">>)>> ELSE <<>>)
  /\ pc' = "idle"
  /\ UNCHANGED <<entryVars, notifyVars, adapterVars, pairVars, seen_file, clock, filterVars, criteriaVars, sites,
                 site_idx, all_listings, outcomes, filtered_listings, trace,
                 notified, run_result>>

\* run_scraper up to the loop of fetch_listings: sites = self._get_enabled_sites()
StartRun ==
  /\ pc = "idle"
  /\ LET r == GetEnabledSites(config) IN
     IF r.raised
       THEN /\ RunFails
            /\ UNCHANGED <<sites, site_idx, all_listings, outcomes,
                           filtered_listings, trace, notified>>
       ELSE /\ pc' = "fetch"
            /\ sites' = r.sites
            /\ UNCHANGED <<site_idx, all_listings, outcomes, filtered_listings,
                           trace, notified, log, run_result>>
  /\ UNCHANGED <<config, entryVars, notifyVars, adapterVars, pairVars, storeVars, filterVars, criteriaVars>>

\* one iteration of the loop of fetch_listings
FetchSite ==
  /\ pc = "fetch"
  /\ site_idx < Len(sites)
  /\ LET site == sites[site_idx + 1] IN
     IF ~ HasAdapter(site)
       THEN /\ log' = Append(log, Warn(site))
            /\ outcomes' = Append(outcomes, Outcome("no_adapter", <<>>))
            /\ site_idx' = site_idx + 1
            /\ UNCHANGED all_listings
       ELSE \E o \in StageOutcomes :
            /\ outcomes' = Append(outcomes, o)
            /\ IF o.kind = "ok"
                 THEN /\ all_listings' = ExtendAll(all_listings, o.listings)
                      /\ site_idx' = site_idx + 1
                      /\ UNCHANGED log
                 ELSE /\ log' = Append(log, Err(site))
                      /\ site_idx' = AfterSiteError(site_idx, Len(sites))
                      /\ UNCHANGED all_listings
  /\ UNCHANGED <<config, entryVars, notifyVars, adapterVars, pairVars, storeVars, filterVars, criteriaVars, pc, sites,
                 filtered_listings, trace, notified, run_result>>

\* fetch_listings returns all_listings to run_scraper
FetchReturn ==
  /\ pc = "fetch"
  /\ site_idx >= Len(sites)
  /\ pc' = "filter"
  /\ trace' = Append(trace, "fetch")
  /\ UNCHANGED <<config, entryVars, notifyVars, adapterVars, pairVars, storeVars, filterVars, criteriaVars, sites, site_idx,
                 all_listings, outcomes, filtered_listings, notified, log,
                 run_result>>

\* seen_listings.csv after filter_listings has registered ids in
\* self.seen_listings: the method does not open the file
FileAfterFilter_Flush(file, seen) == seen

FileAfterFilter(file, seen) == file

\* seen_listings.csv after the except clause of run_scraper has handled an
\* exception of filter_listings: the clause logs, the save is skipped
FileAfterRunException_Save(file, seen) == seen

FileAfterRunException(file, seen) == file

\* filtered_listings = self.filter_listings(listings)
RunFilter ==
  /\ pc = "filter"
  /\ \E now \in clock..MaxClock :
       \E r \in {FilterListings(all_listings, seen_listings, config, now)} :
       /\ seen_listings' = r.seen
       /\ seen_file' =
            IF r.raised
              THEN FileAfterRunException(FileAfterFilter(seen_file, r.seen),
                                         r.seen)
              ELSE FileAfterFilter(seen_file, r.seen)
       /\ clock' = now
       /\ IF r.raised
            THEN /\ RunFails
                 /\ UNCHANGED <<filtered_listings, trace>>
            ELSE /\ pc' = "notify"
                 /\ filtered_listings' = r.out
                 /\ trace' = Append(trace, "filter")
                 /\ UNCHANGED <<log, run_result>>
  /\ UNCHANGED <<config, entryVars, notifyVars, adapterVars, pairVars, filterVars,
                 criteriaVars, sites, site_idx, all_listings, outcomes,
                 notified>>

\* if filtered_listings: (log "Notifying user...", "User notified")
RunNotify ==
  /\ pc = "notify"
  /\ pc' = "save"
  /\ notified' = notified \o NotifyCalls(filtered_listings)
  /\ trace' = IF NotifyCalls(filtered_listings) # <<>>
                THEN Append(trace, "notify") ELSE trace
  /\ UNCHANGED <<config, entryVars, notifyVars, adapterVars, pairVars, storeVars, filterVars, criteriaVars, sites, site_idx,
                 all_listings, outcomes, filtered_listings, log, run_result>>

\* with open("seen_listings.csv", "w") as f: json.dump(self.seen_listings, f):
\* the file's new content
WriteStore_Merge(file, seen) ==
  [x \in (DOMAIN file) \cup (DOMAIN seen) |->
     IF x \in DOMAIN seen THEN seen[x] ELSE file[x]]

WriteStore(file, seen) == seen

\* self._save_seen_listings(): the dump succeeds, or open / dump raises,
\* which is caught and logged; a failed write leaves the file as it was or
\* truncated, which loads as the empty store
RunSave ==
  /\ pc = "save"
  /\ \/ /\ seen_file' = WriteStore(seen_file, seen_listings)
        /\ UNCHANGED log
     \/ /\ seen_file' \in {seen_file, <<>>}
        /\ log' = Append(log, Err(<<"save">>))
  /\ pc' = "done"
  /\ trace' = Append(trace, "save")
  /\ run_result' = "returned"
  /\ UNCHANGED <<config, entryVars, notifyVars, adapterVars, pairVars, seen_listings, clock, filterVars, criteriaVars, sites,
                 site_idx, all_listings, outcomes, filtered_listings, notified>>

SiteConfigs ==
  {<<>>,
   << <<Site(N_rightmove, <<TRUE>>), Site(N_Zoopla, <<>>)>> >>,
   << <<Site(N_zoopla, <<TRUE>>), Site(N_gumtree, <<TRUE>>),
        Site(N_openrent, <<TRUE>>)>> >>,
   << <<Site(N_rightmove, <<FALSE>>)>> >>,
   << <<Site(N_spareroom, <<>>), Site(N_onthemarket, <<FALSE>>)>> >>,
   << <<Site(N_zoopla, <<TRUE>>), BadSite(N_rightmove)>> >>}

RunConfigs ==
  {[filters |-> f, bypass |-> b, sites |-> sc] :
     f \in {NoFilters, ScenarioFilters}, b \in {<<>>, <<TRUE>>},
     sc \in SiteConfigs}

\* the process starts: a config file that holds one of the configs or cannot
\* be loaded, and a seen_listings.csv left by earlier runs; no scanner yet
Init ==
  /\ entry \in EntryPoints
  /\ config_file \in {<<>>} \cup {<<c>> : c \in RunConfigs}
  /\ config = EmptyConfig
  /\ seen_listings = <<>>
  /\ seen_file \in {<<>>, [k \in {"rm-1"} |-> 0]}
  /\ clock = 0
  /\ pc = "start" /\ sites = <<>> /\ site_idx = 0 /\ all_listings = <<>>
  /\ outcomes = <<>> /\ filtered_listings = <<>> /\ trace = <<>>
  /\ notified = <<>> /\ log = <<>> /\ run_result = "none"
  /\ NoCriteriaCall /\ NoFilterCall /\ NoAdapterCall /\ NoPair
  /\ NoNotifyCall

Next ==
  \/ CliLoadConfig
  \/ Construct
  \/ StartRun
  \/ FetchSite
  \/ FetchReturn
  \/ RunFilter
  \/ RunNotify
  \/ RunSave

Spec == Init /\ [][Next]_vars

-----------------------------------------------------------------------------
(* SpecParse: parse_listings of the five adapters, applied to one document *)

\* the scanner that built the adapters, from the config {}; none of its
\* methods is running
ScannerIdle ==
  /\ config = EmptyConfig
  /\ entry = "app.py" /\ config_file = <<EmptyConfig>>
  /\ seen_listings = <<>> /\ seen_file = <<>> /\ clock = 0
  /\ NoCriteriaCall /\ NoFilterCall /\ NoRun /\ NoPair /\ NoNotifyCall

scannerVars == <<config, entryVars, storeVars, filterVars, criteriaVars,
                 runVars, pairVars, notifyVars>>

MaxItems == 2    \* most candidates of one kind in a document

\* one candidate of a document, a property card of the HTML or a property of
\* the embedded JSON: id is the site's raw identifier (<<>>: none found),
\* raises says that extracting a field after the id raises
Item(id, raises) == [id |-> id, raises |-> raises]

Document(cards, props) == [cards |-> cards, props |-> props]

ParsedListing(id, source) == [id |-> id, source |-> source]

R_7    == <<"7">>
R_otm7 == <<"o","t","m","-","7">>
S_None == <<"N","o","n","e">>
S_sr   == <<"s","r","-">>

\* the text each adapter puts before the raw identifier in "id"
IdPrefix(a) ==
  CASE a = N_rightmove   -> <<>>
    [] a = N_zoopla      -> N_zoopla \o <<"-">>
    [] a = N_onthemarket -> <<"o","t","m","-">>
    [] a = N_spareroom   -> N_spareroom \o <<"-">>
    [] a = N_openrent    -> N_openrent \o <<"-">>

\* the raw identifier an adapter works with for an item, <<>> when the item
\* is skipped for want of one: Rightmove takes str(prop.get('id')), SpareRoom
\* makes one up from the time of day, the others skip the item (continue)
RawId(a, item, ts) ==
  IF item.id # <<>> THEN item.id
  ELSE IF a = N_rightmove THEN <<S_None>>
  ELSE IF a = N_spareroom THEN <<S_sr \o <<Digits[ts + 1]>> >>
  ELSE <<>>

\* the body of the loop for one item: "skipped", "error" or "listing"
ParseItem(a, item, ts) ==
  LET raw == RawId(a, item, ts) IN
  IF raw = <<>> THEN [kind |-> "skipped", listing |-> <<>>]
  ELSE IF item.raises THEN [kind |-> "error", listing |-> <<>>]
  ELSE [kind |-> "listing",
        listing |-> <<ParsedListing(IdPrefix(a) \o raw[1], a)>>]

\* where the except clause that catches an item's error stands: inside the
\* loop (log, go on with the next item)
OnItemError_Propagate == "propagate"

OnItemError == "next_item"

\* for card in property_cards: try: ... except Exception: logger.error(...)
RECURSIVE ParseLoop(_, _, _, _)
ParseLoop(a, items, ts, acc) ==
  IF items = <<>> THEN acc
  ELSE LET r == ParseItem(a, Head(items), ts) IN
    IF r.kind = "error"
      THEN IF OnItemError = "next_item"
             THEN ParseLoop(a, Tail(items), ts,
                            [acc EXCEPT !.errors = @ + 1])
             ELSE [acc EXCEPT !.raised = TRUE]
      ELSE ParseLoop(a, Tail(items), ts,
                     [acc EXCEPT !.listings = @ \o r.listing])

NoListings == [listings |-> <<>>, errors |-> 0, raised |-> FALSE]

\* parse_listings of adapter a: Rightmove reads the embedded JSON only;
\* Zoopla reads the cards and, when they gave no listing, the embedded JSON;
\* OnTheMarket, SpareRoom and OpenRent read the cards only
ParseListings(a, doc, ts) ==
  IF a = N_rightmove THEN ParseLoop(a, doc.props, ts, NoListings)
  ELSE LET fromCards == ParseLoop(a, doc.cards, ts, NoListings) IN
    IF a = N_zoopla /\ ~ fromCards.raised /\ fromCards.listings = <<>>
      THEN ParseLoop(a, doc.props, ts, fromCards)
      ELSE fromCards

Items == {Item(<<R_7>>, FALSE), Item(<<R_otm7>>, FALSE), Item(<<>>, FALSE),
          Item(<<R_7>>, TRUE)}

Documents ==
  {Document(c, p) : c \in SeqsUpTo(Items, MaxItems),
                    p \in SeqsUpTo(Items, MaxItems)}

InitParse ==
  /\ pl_doc \in {<<d>> : d \in Documents}
  /\ pl_results = <<>> /\ pl_again = <<>>
  /\ NoUrlCall /\ NoFetchCall /\ NoSortCall
  /\ ScannerIdle

\* listings = adapter.parse_listings(raw_data), for an adapter that has not
\* parsed the document yet
CallParseListings ==
  \E a \in AdapterNames \ DOMAIN pl_results, ts \in 0..MaxClock :
    /\ pl_results' =
         [x \in DOMAIN pl_results \cup {a} |->
            IF x = a THEN ParseListings(a, pl_doc[1], ts) ELSE pl_results[x]]
    /\ UNCHANGED <<pl_doc, pl_again, urlVars, fetchVars, sortVars, scannerVars>>

NextParse == CallParseListings

SpecParse == InitParse /\ [][NextParse]_vars

-----------------------------------------------------------------------------
(* SpecReparse: one adapter parses the same document twice, in one run or  *)
(* in two runs                                                             *)

InitReparse ==
  /\ pl_doc \in {<<d>> : d \in Documents}
  /\ pl_results = <<>> /\ pl_again = <<>>
  /\ NoUrlCall /\ NoFetchCall /\ NoSortCall
  /\ ScannerIdle

\* listings = adapter.parse_listings(raw_data), at instant ts
ParseFirst ==
  /\ pl_results = <<>>
  /\ \E a \in AdapterNames, ts \in clock..MaxClock :
       /\ pl_results' = [x \in {a} |-> ParseListings(a, pl_doc[1], ts)]
       /\ clock' = ts
  /\ UNCHANGED <<pl_doc, pl_again, urlVars, fetchVars, sortVars, config,
                 entryVars, seen_listings, seen_file, filterVars,
                 criteriaVars, runVars, pairVars, notifyVars>>

\* the same adapter's parse_listings(raw_data) again, at a later instant ts
\* (or the same one, as far as the clock tells)
ParseAgain ==
  /\ pl_results # <<>> /\ pl_again = <<>>
  /\ \E a \in DOMAIN pl_results, ts \in clock..MaxClock :
       /\ pl_again' = [x \in {a} |-> ParseListings(a, pl_doc[1], ts)]
       /\ clock' = ts
  /\ UNCHANGED <<pl_doc, pl_results, urlVars, fetchVars, sortVars, config,
                 entryVars, seen_listings, seen_file, filterVars,
                 criteriaVars, runVars, pairVars, notifyVars>>

NextReparse ==
  \/ ParseFirst
  \/ ParseAgain

SpecReparse == InitReparse /\ [][NextReparse]_vars

-----------------------------------------------------------------------------
(* SpecUrl: get_sort_parameter and build_url of the five adapters.  A URL  *)
(* is the sequence of the text fragments it is concatenated from.          *)

\* the values of "sort_type" the scanner documents
SortPreferences ==
  {"default", "price_high_to_low", "price_low_to_high", "newest_first",
   "oldest_first", "last_updated"}

\* sort_mapping of each adapter's get_sort_parameter (ZooplaAdapter has none)
SortMapping(a) ==
  CASE a = N_rightmove ->
         [price_high_to_low |-> "sortType=2", price_low_to_high |-> "sortType=1",
          newest_first |-> "sortType=6", oldest_first |-> "sortType=10",
          default |-> "sortType=6"]
    [] a = N_onthemarket ->
         [price_high_to_low |-> "sort-field=price",
          price_low_to_high |-> "direction=asc&sort-field=price",
          newest_first |-> "sort-field=update_date", default |-> ""]
    [] a = N_spareroom ->
         [price_high_to_low |-> "sort_by=price_high_to_low",
          price_low_to_high |-> "sort_by=price_low_to_high",
          newest_first |-> "sort_by=days_since_placed",
          last_updated |-> "sort_by=last_updated",
          default |-> "sort_by=days_since_placed"]
    [] a = N_openrent ->
         [price_high_to_low |-> "sortType=2", price_low_to_high |-> "sortType=1",
          default |-> ""]

\* sort_mapping.get(self.sort_type, sort_mapping["default"]) for a
\* sort_type that is not a key
MappingMiss_Nothing(mapping) == ""

MappingMiss(mapping) == mapping["default"]

\* adapter.get_sort_parameter(site_specific)
GetSortParameter(a, sort_type, site_specific) ==
  IF a = N_zoopla THEN ""
  ELSE IF site_specific /\ sort_type # "default" THEN sort_type
  ELSE IF sort_type \in DOMAIN SortMapping(a) THEN SortMapping(a)[sort_type]
  ELSE MappingMiss(SortMapping(a))

\* an adapter's settings: site_url is its search_url (base_url for
\* OnTheMarket), max_price its maximum-price parameter; <<>> when not set
AdapterParams(site_url, max_price) ==
  [site_url |-> site_url, max_price |-> max_price]

U_custom == <<"https://example.test/find">>

DefaultSiteUrl(a) ==
  CASE a = N_rightmove ->
         <<"https://www.rightmove.co.uk/property-to-rent/find.html">>
    [] a = N_zoopla -> <<"https://www.zoopla.co.uk/to-rent/property/">>
    [] a = N_onthemarket -> <<"https://www.onthemarket.com">>
    [] a = N_spareroom ->
         <<"https://www.spareroom.co.uk/flatshare/", "?",
           "search_id=1361538853&mode=list">>
    [] a = N_openrent ->
         <<"https://www.openrent.co.uk/properties-to-rent/bristol">>

DefaultMaxPrice(a) == IF a = N_rightmove THEN "1200" ELSE "1500"

\* the URL up to the sort fragment, the parameters other than the maximum
\* price at their defaults
UrlStem(a, params) ==
  LET site == Get(params.site_url, DefaultSiteUrl(a))
      max == Get(params.max_price, DefaultMaxPrice(a))
  IN CASE a = N_rightmove ->
            site \o <<"?", "locationIdentifier=REGION^219", "&minPrice=0",
                      "&maxPrice=", max,
                      "&minBedrooms=1&maxBedrooms=1&radius=0.0",
                      "&includeLetAgreed=false",
                      "&dontShow=houseShare,student,retirement",
                      "&letType=shortTerm",
                      "&propertyTypes=&mustHave=&dontShow=&furnishTypes=&keywords=">>
       [] a = N_zoopla ->
            site \o <<"bristol", "?", "q=property bristol bristol&",
                      "beds_min=0&beds_max=1&price_min=0&", "price_max=", max,
                      "&radius=0.0&price_frequency=per_month&search_source=to-rent&",
                      "is_retirement_home=False&is_shared_accommodation=False&",
                      "is_student_accommodation=False&furnished_state=any&",
                      "available_from=1month">>
       [] a = N_onthemarket ->
            site \o <<"/to-rent/property/", "bristol", "/",
                      "?min-bedrooms=0", "&max-bedrooms=1", "&max-price=", max,
                      "&let-length=short-term&furnished=furnished",
                      "&shared=False&student=False">>
       [] a = N_spareroom -> site
       [] a = N_openrent ->
            site \o <<"?", "term=Bristol, Bristol", "&prices_max=", max,
                      "&bedrooms_min=0&bedrooms_max=1&furnishedType=1",
                      "&acceptNonStudents=True&isLive=True">>

\* adapter.build_url(): the stem, then "&" (SpareRoom: "?" when the URL has
\* no "?" yet) and the sort fragment when there is one; ZooplaAdapter adds
\* no sort fragment
BuildUrl(a, sort_type, params) ==
  LET stem == UrlStem(a, params)
      sort_param == GetSortParameter(a, sort_type, FALSE)
      separator ==
        IF a = N_spareroom /\ ~ \E i \in 1..Len(stem) : stem[i] = "?"
          THEN "?" ELSE "&"
  IN IF a = N_zoopla \/ sort_param = "" THEN stem
     ELSE stem \o <<separator, sort_param>>

ParamChoices ==
  {AdapterParams(u, m) : u \in {<<>>, <<U_custom>>}, m \in {<<>>, <<"900">>}}

\* where a config file can hold a site's settings: in the entry of the site
\* under "sites", and under a top-level key that is the site's name
SiteSettings(in_sites, top_level) ==
  [in_sites |-> in_sites, top_level |-> top_level]

\* self.config = config.get("<name>", {}) in each adapter's __init__
AdapterConfig(settings) == settings.top_level

InitUrl ==
  /\ url_adapter \in {<<a>> : a \in AdapterNames}
  /\ url_params \in {<<SiteSettings(in_sites, top_level)>> :
                       in_sites \in ParamChoices, top_level \in ParamChoices}
  /\ url_results = <<>>
  /\ NoParseCall /\ NoFetchCall /\ NoSortCall
  /\ ScannerIdle

\* url = adapter.build_url(), the adapter constructed with a sort_type under
\* which the URL has not been built yet
CallBuildUrl ==
  \E sort_type \in SortPreferences \ DOMAIN url_results :
    /\ url_results' =
         [x \in DOMAIN url_results \cup {sort_type} |->
            IF x = sort_type
              THEN [fragment |->
                      GetSortParameter(url_adapter[1], sort_type, FALSE),
                    url |-> BuildUrl(url_adapter[1], sort_type,
                                    AdapterConfig(url_params[1]))]
              ELSE url_results[x]]
    /\ UNCHANGED <<url_adapter, url_params, parseVars, fetchVars, sortVars,
                 scannerVars>>

NextUrl == CallBuildUrl

SpecUrl == InitUrl /\ [][NextUrl]_vars

-----------------------------------------------------------------------------
(* SpecSort: get_sort_parameter() of the five adapters of one scanner, all *)
(* constructed with the scanner's sort_type                                *)

InitSort ==
  /\ st_type \in {<<sort_type>> : sort_type \in SortPreferences}
  /\ st_fragments = <<>>
  /\ NoParseCall /\ NoUrlCall /\ NoFetchCall
  /\ ScannerIdle

\* sort_param = adapter.get_sort_parameter(), for an adapter not asked yet
CallGetSortParameter ==
  \E a \in AdapterNames \ DOMAIN st_fragments :
    /\ st_fragments' =
         [x \in DOMAIN st_fragments \cup {a} |->
            IF x = a THEN GetSortParameter(a, st_type[1], FALSE)
            ELSE st_fragments[x]]
    /\ UNCHANGED <<st_type, parseVars, urlVars, fetchVars, scannerVars>>

NextSort == CallGetSortParameter

SpecSort == InitSort /\ [][NextSort]_vars

-----------------------------------------------------------------------------
(* SpecFetch: one fetch_listings(url) call of an adapter, request by       *)
(* request                                                                 *)

\* RightmoveAdapter and ZooplaAdapter override fetch_listings; the other
\* three adapters inherit BaseAdapter.fetch_listings
OverridesFetch(a) == a \in {N_rightmove, N_zoopla}

\* status codes a site answers with
Statuses == {200, 403, 404, 429, 500}

\* what a request meets: a response with a status, or an exception of
\* requests (no connection)
RequestOutcomes ==
  {[raised |-> FALSE, status |-> st] : st \in Statuses}
    \cup {[raised |-> TRUE, status |-> 0]}

\* time.sleep(random.uniform(1, 3))
Sleep ==
  [kind |-> "sleep", target |-> "", identity |-> "", raised |-> FALSE,
   status |-> 0]

\* session.get / requests.get of the homepage or of url, with self.headers
\* ("default") or with the other User-Agent ("alternate")
Request(target, identity, outcome) ==
  [kind |-> "request", target |-> target, identity |-> identity,
   raised |-> outcome.raised, status |-> outcome.status]

\* return response.text, of the response to request number n of the call
ReturnsText(n) == [kind |-> "text", response |-> n]
\* except Exception: return ""
ReturnsEmpty == [kind |-> "empty", response |-> 0]
\* the exception leaves fetch_listings
Raises == [kind |-> "raised", response |-> 0]

InitFetch ==
  /\ ft_adapter \in {<<a>> : a \in AdapterNames}
  /\ ft_pc = "call"
  /\ ft_events = <<>>
  /\ ft_result = <<>>
  /\ NoParseCall /\ NoUrlCall /\ NoSortCall
  /\ ScannerIdle

\* the overriding fetch_listings sleeps once, before its try block
FetchSleep ==
  /\ ft_pc = "call"
  /\ OverridesFetch(ft_adapter[1])
  /\ ft_events' = Append(ft_events, Sleep)
  /\ ft_pc' = "homepage"
  /\ UNCHANGED <<ft_adapter, ft_result, parseVars, urlVars, sortVars,
                 scannerVars>>

\* session.get("https://www.<site>/", headers=self.headers)
FetchHomepage ==
  /\ ft_pc = "homepage"
  /\ \E o \in RequestOutcomes :
       /\ ft_events' = Append(ft_events, Request("homepage", "default", o))
       /\ IF o.raised
            THEN ft_pc' = "done" /\ ft_result' = <<ReturnsEmpty>>
            ELSE ft_pc' = "search" /\ UNCHANGED ft_result
  /\ UNCHANGED <<ft_adapter, parseVars, urlVars, sortVars,
                 scannerVars>>

\* response = session.get(url, headers=self.headers), and in
\* BaseAdapter.fetch_listings response = requests.get(url, headers=self.headers)
\* followed by return response.text
FetchSearch ==
  /\ \/ ft_pc = "search"
     \/ ft_pc = "call" /\ ~ OverridesFetch(ft_adapter[1])
  /\ \E o \in RequestOutcomes :
       /\ ft_events' = Append(ft_events, Request("url", "default", o))
       /\ IF o.raised
            THEN /\ ft_pc' = "done"
                 /\ ft_result' = IF OverridesFetch(ft_adapter[1])
                                   THEN <<ReturnsEmpty>> ELSE <<Raises>>
            ELSE IF OverridesFetch(ft_adapter[1]) /\ o.status = 403
              THEN ft_pc' = "retry" /\ UNCHANGED ft_result
              ELSE /\ ft_pc' = "done"
                   /\ ft_result' = <<ReturnsText(Len(ft_events) + 1)>>
  /\ UNCHANGED <<ft_adapter, parseVars, urlVars, sortVars,
                 scannerVars>>

\* if response.status_code == 403:
\*   response = session.get(url, headers=alt_headers); return response.text
FetchRetry ==
  /\ ft_pc = "retry"
  /\ \E o \in RequestOutcomes :
       /\ ft_events' = Append(ft_events, Request("url", "alternate", o))
       /\ ft_result' = IF o.raised THEN <<ReturnsEmpty>>
                        ELSE <<ReturnsText(Len(ft_events) + 1)>>
  /\ ft_pc' = "done"
  /\ UNCHANGED <<ft_adapter, parseVars, urlVars, sortVars,
                 scannerVars>>

NextFetch ==
  \/ FetchSleep
  \/ FetchHomepage
  \/ FetchSearch
  \/ FetchRetry

SpecFetch == InitFetch /\ [][NextFetch]_vars

-----------------------------------------------------------------------------
(* SpecPair: two scanner processes (two requests of app.py's /run_scraper  *)
(* route, or a scheduled run_scraper.py beside it) that share              *)
(* seen_listings.csv; each constructs a scanner and calls run_scraper      *)

Procs == {1, 2}

\* what a process loaded from the file, and how many saves had been made
Loaded(store, saves_before) == [store |-> store, saves_before |-> saves_before]

Saved(proc, ok) == [proc |-> proc, ok |-> ok]

InitPair ==
  /\ pr_pc = [p \in Procs |-> "start"]
  /\ pr_loaded = [p \in Procs |-> Loaded(<<>>, 0)]
  /\ pr_seen = [p \in Procs |-> <<>>]
  /\ pr_saved = <<>>
  /\ seen_file \in {<<>>, [k \in {"rm-1"} |-> 0]}
  /\ config = EmptyConfig
  /\ entry = "app.py" /\ config_file = <<EmptyConfig>>
  /\ seen_listings = <<>> /\ clock = 0
  /\ NoCriteriaCall /\ NoFilterCall /\ NoRun /\ NoAdapterCall
  /\ NoNotifyCall

\* PropertyScanner.__init__ in process p: self._load_seen_listings()
PairLoad(p) ==
  /\ pr_pc[p] = "start"
  /\ \E load_raises \in BOOLEAN :
       LET store == IF load_raises THEN <<>> ELSE seen_file IN
       /\ pr_seen' = [pr_seen EXCEPT ![p] = store]
       /\ pr_loaded' = [pr_loaded EXCEPT ![p] = Loaded(store, Len(pr_saved))]
  /\ pr_pc' = [pr_pc EXCEPT ![p] = "run"]
  /\ UNCHANGED <<config, entryVars, notifyVars, adapterVars, storeVars, filterVars,
                 criteriaVars, runVars, pr_saved>>

\* run_scraper in process p up to the save: fetch_listings, then
\* filter_listings, which registers in the process's own store; when it
\* raises, the except clause of run_scraper ends the run without saving
PairFilter(p) ==
  /\ pr_pc[p] = "run"
  /\ \E listings \in SiteParses, now \in clock..MaxClock :
       \E r \in {FilterListings(listings, pr_seen[p], config, now)} :
       /\ pr_seen' = [pr_seen EXCEPT ![p] = r.seen]
       /\ pr_pc' = [pr_pc EXCEPT ![p] = IF r.raised THEN "done" ELSE "save"]
       /\ clock' = now
  /\ UNCHANGED <<config, entryVars, notifyVars, adapterVars, seen_listings, seen_file,
                 filterVars, criteriaVars, runVars, pr_loaded, pr_saved>>

\* self._save_seen_listings() in process p
PairSave(p) ==
  /\ pr_pc[p] = "save"
  /\ \/ /\ seen_file' = WriteStore(seen_file, pr_seen[p])
        /\ pr_saved' = Append(pr_saved, Saved(p, TRUE))
     \/ /\ seen_file' \in {seen_file, <<>>}
        /\ pr_saved' = Append(pr_saved, Saved(p, FALSE))
  /\ pr_pc' = [pr_pc EXCEPT ![p] = "done"]
  /\ UNCHANGED <<config, entryVars, notifyVars, adapterVars, seen_listings, clock,
                 filterVars, criteriaVars, runVars, pr_loaded, pr_seen>>

NextPair ==
  \E p \in Procs :
    \/ PairLoad(p)
    \/ PairFilter(p)
    \/ PairSave(p)

SpecPair == InitPair /\ [][NextPair]_vars

-----------------------------------------------------------------------------
(* SpecNotify: one notify_user(listings) call *)

MaxNotified == 6   \* longest list handed to notify_user

ConsoleLimit == 5  \* listings[:5]

T_Property == <<"P","r","o","p","e","r","t","y">>

L_Untitled == Listing(<<"rm-4">>, <<>>, <<T_At>>, <<>>, <<PInt(900)>>, <<PInt(1)>>)

NotifyPool == {L_900, L_Untitled}

\* what _send_email meets: no notifications.email section in the config
\* (warning, return), the message is sent, or building or sending it raises
EmailOutcomes == {"unconfigured", "sent", "fails"}

\* the three print calls for one listing: title (default 'Property'),
\* price_text, address, then the link and an empty line; the modelled
\* listings carry no price_text and no link
ListingLines(l) ==
  [kind |-> "listing", title |-> Get(l.title, T_Property),
   address |-> Get(l.address, <<>>), count |-> 0]

\* print(f"... and {len(listings) - 5} more listings")
MoreLine(n) == [kind |-> "more", title |-> <<>>, address |-> <<>>, count |-> n]

\* Python's  xs[:n]
Prefix(xs, n) == SubSeq(xs, 1, IF Len(xs) < n THEN Len(xs) ELSE n)

\* PropertyScanner._print_listings: what it prints
PrintListings_NoCount(listings) ==
  LET shown == Prefix(listings, ConsoleLimit) IN
  [i \in 1..Len(shown) |-> ListingLines(shown[i])]

PrintListings(listings) ==
  LET shown == Prefix(listings, ConsoleLimit) IN
  [i \in 1..Len(shown) |-> ListingLines(shown[i])]
    \o (IF Len(listings) > ConsoleLimit
          THEN <<MoreLine(Len(listings) - ConsoleLimit)>> ELSE <<>>)

\* PropertyScanner._send_email: "returned" or "raised"
SendEmail(outcome) == IF outcome = "fails" THEN "raised" ELSE "returned"

InitNotify ==
  /\ nt_listings \in {<<ls>> : ls \in SeqsUpTo(NotifyPool, MaxNotified)}
  /\ nt_email \in EmailOutcomes
  /\ nt_console = <<>>
  /\ nt_result = "none"
  /\ config = EmptyConfig
  /\ entry = "app.py" /\ config_file = <<EmptyConfig>>
  /\ seen_listings = <<>> /\ seen_file = <<>> /\ clock = 0
  /\ NoCriteriaCall /\ NoFilterCall /\ NoRun /\ NoPair /\ NoAdapterCall

\* scanner.notify_user(listings): try: self._send_email(listings)
\* except Exception: logger.error(...); self._print_listings(listings)
CallNotifyUser ==
  /\ nt_result = "none"
  /\ nt_console' = IF SendEmail(nt_email) = "raised"
                     THEN nt_console \o PrintListings(nt_listings[1])
                     ELSE nt_console
  /\ nt_result' = "returned"
  /\ UNCHANGED <<nt_listings, nt_email, config, entryVars, adapterVars,
                 pairVars, storeVars, filterVars, criteriaVars, runVars>>

NextNotify == CallNotifyUser

SpecNotify == InitNotify /\ [][NextNotify]_vars

-----------------------------------------------------------------------------
(* The filter steps as the specification states them, each on its own *)

SpecText(l) ==
  Get(l.title, <<>>) \o <<" ">> \o Get(l.address, <<>>) \o <<" ">>
    \o Get(l.description, <<>>)

\* kw occurs in text, letters compared without regard to case
OccursIgnoringCase(kw, text) ==
  \E i \in 0..(Len(text) - Len(kw)) :
    \A j \in 1..Len(kw) : LowerChar(kw[j]) = LowerChar(text[i + j])

Elems(list) == {list[i] : i \in 1..Len(list)}

ExcludeStepRejects(l, f) ==
  \E kw \in Elems(Get(f.exclude_keywords, <<>>)) :
    OccursIgnoringCase(kw, SpecText(l))

IncludeStepRejects(l, f) ==
  /\ Get(f.keywords, <<>>) # <<>>
  /\ \A kw \in Elems(Get(f.keywords, <<>>)) :
       ~ OccursIgnoringCase(kw, SpecText(l))

\* a parsed number outside [lo, hi], either bound optional, bounds inclusive
OutOfBounds(n, lo, hi) ==
  \/ (lo # <<>> /\ n < lo[1])
  \/ (hi # <<>> /\ n > hi[1])

BoundStepRejects(value, lo, hi) ==
  /\ PyInt(Get(value, PInt(0))).ok
  /\ OutOfBounds(PyInt(Get(value, PInt(0))).val, lo, hi)

PriceStepRejects(l, f) == BoundStepRejects(l.price, f.min_price, f.max_price)

BedsStepRejects(l, f) == BoundStepRejects(l.bedrooms, f.min_beds, f.max_beds)

McCalled == mc_result # "none"
McListing == mc_listing[1]
McFilters == config.filters

-----------------------------------------------------------------------------
(* Claims on _meets_criteria, under SpecCriteria *)

\* C6: with a price bound configured, a listing whose price parses as an
\* integer is excluded by the price check iff the number is below min_price
\* or above max_price (bounds inclusive, each optional); a listing whose
\* price does not parse is never excluded by the price check.  "Excluded by
\* the price check" is read off the result of _meets_criteria on listings
\* that the other three checks accept.
C6_FailOpenPrice ==
  (/\ McCalled
   /\ McListing.price # <<>>
   /\ (McFilters.min_price # <<>> \/ McFilters.max_price # <<>>))
  =>
  LET n == PyInt(McListing.price[1])
      out == n.ok /\ OutOfBounds(n.val, McFilters.min_price, McFilters.max_price)
      othersAccept ==
        /\ ~ ExcludeStepRejects(McListing, McFilters)
        /\ ~ IncludeStepRejects(McListing, McFilters)
        /\ ~ BedsStepRejects(McListing, McFilters)
  IN /\ out => mc_result = "false"
     /\ (othersAccept /\ ~ out) => mc_result = "true"

\* an unparseable price passes under min_price = 800, max_price = 1200
C6_Witness ==
  /\ mc_result = "true"
  /\ McListing.price = <<P_POA>>
  /\ McFilters.min_price = <<800>> /\ McFilters.max_price = <<1200>>

\* C7: a listing in which some exclude keyword occurs, case-insensitively,
\* in title + " " + address + " " + description is rejected, whatever the
\* include keywords, the price and the bedrooms are.
C7_ExcludeKeywords ==
  (McCalled /\ ExcludeStepRejects(McListing, McFilters)) => mc_result = "false"

\* "Student house" is rejected by exclude_keywords = ["student"] although
\* every other check accepts it
C7_Witness ==
  /\ mc_result = "false"
  /\ McListing.title = <<T_StudentHouse>>
  /\ McListing.description = <<>>
  /\ McFilters.exclude_keywords = << <<K_student>> >>
  /\ ~ IncludeStepRejects(McListing, McFilters)
  /\ ~ PriceStepRejects(McListing, McFilters)
  /\ ~ BedsStepRejects(McListing, McFilters)

\* C8: with a non-empty include list, a listing in which no include keyword
\* occurs (case-insensitively) is rejected; with an empty or absent list the
\* include check rejects nothing: the result is that of the other checks.
C8_IncludeKeywords ==
  McCalled =>
    /\ IncludeStepRejects(McListing, McFilters) => mc_result = "false"
    /\ Get(McFilters.keywords, <<>>) = <<>> =>
         (mc_result = "true" <=>
            /\ ~ IsEmptyDict(McListing)
            /\ ~ ExcludeStepRejects(McListing, McFilters)
            /\ ~ PriceStepRejects(McListing, McFilters)
            /\ ~ BedsStepRejects(McListing, McFilters))

\* a listing that only the include step rejects
C8_Witness ==
  /\ mc_result = "false"
  /\ McFilters.keywords = << <<K_Garden, K_House>> >>
  /\ McListing.title = <<T_Flat>>
  /\ ~ ExcludeStepRejects(McListing, McFilters)
  /\ ~ PriceStepRejects(McListing, McFilters)
  /\ ~ BedsStepRejects(McListing, McFilters)

FilterSteps == {"exclude", "include", "price", "bedrooms"}

\* what each of the four checks, evaluated on its own, says of the listing
StepVerdicts(l, f) ==
  [step \in FilterSteps |->
     CASE step = "exclude"  -> ~ ExcludeStepRejects(l, f)
       [] step = "include"  -> ~ IncludeStepRejects(l, f)
       [] step = "price"    -> ~ PriceStepRejects(l, f)
       [] step = "bedrooms" -> ~ BedsStepRejects(l, f)]

\* the orders in which the four checks can be evaluated
StepOrders ==
  UNION {UNION {{<<a, b, c, d>> : d \in FilterSteps \ {a, b, c}} :
                  c \in FilterSteps \ {a, b}} :
           <<a, b>> \in {p \in FilterSteps \X FilterSteps : p[1] # p[2]}}

\* evaluate the checks in the given order, stopping at the first that
\* rejects: the listing is accepted unless some check is reached (every check
\* before it accepted) and rejects
AcceptsInOrder(order, verdicts) ==
  ~ \E i \in 1..Len(order) :
      /\ \A j \in 1..(i - 1) : verdicts[order[j]]
      /\ ~ verdicts[order[i]]

\* C24: for every listing the scanner filters (a dict with at least its id)
\* and every filter configuration, _meets_criteria returns true iff each of
\* the four checks, evaluated on its own, accepts the listing, and evaluating
\* the checks in any order, stopping at the first rejection, gives that same
\* result.
C24_OrderIndependence ==
  (McCalled /\ ~ IsEmptyDict(McListing)) =>
    \A verdicts \in {StepVerdicts(McListing, McFilters)} :
    /\ mc_result = "true" <=> \A step \in FilterSteps : verdicts[step]
    /\ \A order \in StepOrders :
         AcceptsInOrder(order, verdicts) <=> mc_result = "true"

\* a listing that the first and the last check of the code's order both
\* reject, and the other two accept
C24_Witness ==
  /\ mc_result = "false"
  /\ ExcludeStepRejects(McListing, McFilters)
  /\ BedsStepRejects(McListing, McFilters)
  /\ ~ IncludeStepRejects(McListing, McFilters)
  /\ ~ PriceStepRejects(McListing, McFilters)
  /\ McFilters.keywords # <<>>

\* the field is absent from the listing and one of its bounds is configured
AbsentUnderBound(value, lo, hi) == value = <<>> /\ (lo # <<>> \/ hi # <<>>)

\* the field is present and int() does not convert it
Unconvertible(value) == value # <<>> /\ ~ PyInt(value[1]).ok

\* C30: a listing without price (respectively bedrooms) field is checked
\* against the configured bounds as if the value were 0: it is rejected
\* whenever the configured minimum is greater than 0, and, when 0 is within
\* the bounds, the result is that of the other checks; a value that is
\* present but not convertible to an integer skips the bound.
C30_MissingFieldIsZero ==
  (McCalled /\ ~ IsEmptyDict(McListing)) =>
    LET l == McListing
        f == McFilters
        keywordsAccept ==
          ~ ExcludeStepRejects(l, f) /\ ~ IncludeStepRejects(l, f)
    IN /\ AbsentUnderBound(l.price, f.min_price, f.max_price) =>
            /\ (f.min_price # <<>> /\ f.min_price[1] > 0) => mc_result = "false"
            /\ OutOfBounds(0, f.min_price, f.max_price) => mc_result = "false"
            /\ (/\ ~ OutOfBounds(0, f.min_price, f.max_price)
                /\ keywordsAccept /\ ~ BedsStepRejects(l, f))
                 => mc_result = "true"
       /\ AbsentUnderBound(l.bedrooms, f.min_beds, f.max_beds) =>
            /\ (f.min_beds # <<>> /\ f.min_beds[1] > 0) => mc_result = "false"
            /\ OutOfBounds(0, f.min_beds, f.max_beds) => mc_result = "false"
            /\ (/\ ~ OutOfBounds(0, f.min_beds, f.max_beds)
                /\ keywordsAccept /\ ~ PriceStepRejects(l, f))
                 => mc_result = "true"
       /\ (Unconvertible(l.price) /\ keywordsAccept /\ ~ BedsStepRejects(l, f))
            => mc_result = "true"
       /\ (Unconvertible(l.bedrooms) /\ keywordsAccept
             /\ ~ PriceStepRejects(l, f))
            => mc_result = "true"

\* a listing without price is rejected under min_price = 800 although the
\* keyword checks and the bedrooms check accept it
C30_Witness ==
  /\ mc_result = "false"
  /\ McListing.price = <<>> /\ McListing.bedrooms = <<PInt(1)>>
  /\ McFilters.min_price = <<800>> /\ McFilters.max_price = <<>>
  /\ ~ ExcludeStepRejects(McListing, McFilters)
  /\ ~ IncludeStepRejects(McListing, McFilters)
  /\ ~ BedsStepRejects(McListing, McFilters)

-----------------------------------------------------------------------------
(* Claims on filter_listings, under SpecFilter *)

\* all four steps accept the listing
StepsAccept(l, f) ==
  /\ ~ IsEmptyDict(l)
  /\ ~ ExcludeStepRejects(l, f) /\ ~ IncludeStepRejects(l, f)
  /\ ~ PriceStepRejects(l, f) /\ ~ BedsStepRejects(l, f)

\* the elements of seq at the indices in I, in order
RECURSIVE SubseqAt(_, _)
SubseqAt(seq, I) ==
  IF seq = <<>> THEN <<>>
  ELSE LET rest == SubseqAt(SubSeq(seq, 1, Len(seq) - 1), I) IN
       IF Len(seq) \in I THEN Append(rest, seq[Len(seq)]) ELSE rest

IdsOf(listings) == {listings[i].id[1] : i \in 1..Len(listings)}

UniqueIds(listings) ==
  /\ \A i \in 1..Len(listings) : listings[i].id # <<>>
  /\ \A i, j \in 1..Len(listings) : i # j => listings[i].id # listings[j].id

FlReturned == fl_status = "returned"
FlBypass == config.bypass = <<TRUE>>

\* C1: bypass unset, input ids pairwise distinct, any store: the second of
\* two consecutive filter_listings calls with the same input returns [].
C1_DedupIdempotence ==
  (FlReturned /\ fl_repeat /\ ~ FlBypass /\ UniqueIds(fl_input))
    => fl_output = <<>>

\* the second call on the scenario's three listings, the first call having
\* registered the 900 and the 1100 listing in a store loaded empty
C1_Witness ==
  /\ FlReturned /\ fl_repeat /\ ~ FlBypass
  /\ fl_input = <<L_900, L_1300, L_1100>>
  /\ config.filters = ScenarioFilters
  /\ seen_file = <<>>
  /\ DOMAIN fl_before = {"rm-1", "rm-3"}
  /\ fl_output = <<>>

\* C5: bypass unset: filter_listings returns, in input order, exactly the
\* listings that all four steps accept and whose id is not yet a key of the
\* store when the listing is reached (not a key when the call started, and
\* not registered for an earlier listing of the same call); in the filter
\* scenario the output is the 900 and the 1100 listing.
C5_FilterResult ==
  (FlReturned /\ ~ FlBypass) =>
    /\ fl_output =
         SubseqAt(fl_input,
           {i \in 1..Len(fl_input) :
              /\ StepsAccept(fl_input[i], config.filters)
              /\ fl_input[i].id[1] \notin DOMAIN fl_before
              /\ \A j \in 1..(i - 1) :
                   ~ (/\ fl_input[j].id = fl_input[i].id
                      /\ StepsAccept(fl_input[j], config.filters))})
    /\ (/\ config.filters = ScenarioFilters
        /\ fl_before = <<>>
        /\ fl_input = <<L_900, L_1300, L_1100>>)
       => fl_output = <<L_900, L_1100>>

C5_Witness ==
  /\ FlReturned /\ ~ FlBypass /\ ~ fl_repeat
  /\ config.filters = ScenarioFilters
  /\ fl_before = <<>>
  /\ fl_input = <<L_900, L_1300, L_1100>>
  /\ fl_output = <<L_900, L_1100>>

\* C9: bypass set: the result is exactly the input listings that satisfy
\* the criteria, whatever the store holds; bypass unset: no returned listing
\* has an id that was a key of the store when the call started.
C9_DebugBypass ==
  FlReturned =>
    /\ FlBypass =>
         fl_output =
           SubseqAt(fl_input,
             {i \in 1..Len(fl_input) : StepsAccept(fl_input[i], config.filters)})
    /\ ~ FlBypass =>
         \A i \in 1..Len(fl_output) : fl_output[i].id[1] \notin DOMAIN fl_before

\* under bypass a listing whose id the store already held is returned
C9_Witness ==
  /\ FlReturned /\ FlBypass
  /\ \E i \in 1..Len(fl_output) : fl_output[i].id[1] \in DOMAIN fl_before
  /\ Len(fl_output) < Len(fl_input)

\* C10: when filter_listings returns, the store's key set is its key set
\* before the call united with the ids of the listings returned (so every
\* returned id is a key, and a rejected or already-seen listing adds none).
C10_StoreEffect ==
  FlReturned =>
    DOMAIN seen_listings = (DOMAIN fl_before) \cup IdsOf(fl_output)

\* a call that registered a new id and left a rejected listing's id out
C10_Witness ==
  /\ FlReturned
  /\ IdsOf(fl_output) \ DOMAIN fl_before # {}
  /\ \E i \in 1..Len(fl_input) :
       /\ ~ StepsAccept(fl_input[i], config.filters)
       /\ fl_input[i].id[1] \notin DOMAIN seen_listings

\* C11: the key set of the in-memory store only grows: no call of
\* filter_listings, whatever its input, the bypass flag and the store it
\* starts from, and whether it returns or raises, removes an id.
C11_StoreMonotone ==
  [][DOMAIN seen_listings \subseteq DOMAIN seen_listings']_vars

\* a call on a store that already held an id has added another
C11_Witness ==
  /\ fl_status = "returned"
  /\ DOMAIN fl_before # {}
  /\ DOMAIN fl_before \subseteq DOMAIN seen_listings
  /\ DOMAIN seen_listings \ DOMAIN fl_before # {}

\* C12: the store maps each id to its first-seen timestamp: a
\* filter_listings call, bypass set or unset, leaves the timestamp of every
\* id that was registered before the call as it was.
C12_FirstSeenTimestamp ==
  fl_status # "none" =>
    \A k \in DOMAIN fl_before :
      k \in DOMAIN seen_listings /\ seen_listings[k] = fl_before[k]

\* sub can be obtained from seq by deleting elements
RECURSIVE IsSubsequence(_, _)
IsSubsequence(sub, seq) ==
  IF sub = <<>> THEN TRUE
  ELSE IF seq = <<>> THEN FALSE
  ELSE IF Head(sub) = Head(seq) THEN IsSubsequence(Tail(sub), Tail(seq))
  ELSE IsSubsequence(sub, Tail(seq))

\* the position of the first input listing with the id that passes the
\* criteria
FirstPassing(id) ==
  LET passing == {i \in 1..Len(fl_input) :
                    /\ fl_input[i].id = id
                    /\ StepsAccept(fl_input[i], config.filters)}
  IN CHOOSE i \in passing : \A j \in passing : i <= j

\* C27: bypass unset: the list filter_listings returns is a subsequence of
\* its input in input order, no two of its listings have the same id, also
\* when the input repeats an id, and of the input listings with one id that
\* pass the criteria only the first is returned.
C27_OrderedNoDuplicates ==
  (FlReturned /\ ~ FlBypass) =>
    /\ IsSubsequence(fl_output, fl_input)
    /\ \A i, j \in 1..Len(fl_output) :
         i # j => fl_output[i].id # fl_output[j].id
    /\ \A k \in 1..Len(fl_output) :
         fl_output[k] = fl_input[FirstPassing(fl_output[k].id)]

\* two passing listings with the id rm-1, then one with another id: the
\* first and the third are returned, in that order
C27_Witness ==
  /\ FlReturned /\ ~ FlBypass
  /\ fl_before = <<>>
  /\ config.filters = NoFilters
  /\ fl_input = <<L_900, L_Dup, L_1100>>
  /\ fl_output = <<L_900, L_1100>>

-----------------------------------------------------------------------------
(* Claims on fetch_listings and run_scraper, under Spec *)

\* fetch_listings has returned to run_scraper
FetchReturned == trace # <<>> /\ trace[1] = "fetch"

\* the listings of the sites whose three stages all succeeded, in site order
RECURSIVE SucceededListings(_)
SucceededListings(os) ==
  IF os = <<>> THEN <<>>
  ELSE (IF Head(os).kind = "ok" THEN Head(os).listings ELSE <<>>)
         \o SucceededListings(Tail(os))

Logged(record) == \E i \in 1..Len(log) : log[i] = record

\* C2: fetch_listings returns exactly the concatenation of the listings
\* parsed by the sites whose build_url, fetch_listings and parse_listings all
\* succeeded; a site without adapter or with a raising stage contributes
\* nothing and every later site is still processed.
C2_PartialFailureAggregation ==
  FetchReturned =>
    /\ Len(outcomes) = Len(sites)
    /\ all_listings = SucceededListings(outcomes)

\* the first site's fetch raised, the second site parsed two listings
C2_Witness ==
  /\ FetchReturned
  /\ Len(sites) = 2
  /\ outcomes = <<Outcome("fetch_raises", <<>>), Outcome("ok", <<L_900, L_1300>>)>>
  /\ all_listings = <<L_900, L_1300>>
  /\ Logged(Err(sites[1]))

\* C3: run_scraper never propagates a failure: whichever stage fails, the
\* run ends by returning normally.
C3_NeverPropagates ==
  /\ run_result # "propagated"
  /\ pc = "done" => run_result = "returned"

\* filter_listings raised after fetch_listings had returned: caught, logged
C3_Witness ==
  /\ pc = "done" /\ run_result = "returned"
  /\ trace = <<"fetch">>
  /\ Logged(Err(<<"run">>))

\* the entries of config["sites"], in order
SiteEntries == Get(config.sites, <<>>)

NamesOf(entries) == [i \in 1..Len(entries) |-> entries[i].name]

FlagTrue(site_config) == site_config.enabled = <<TRUE>>
FlagNotFalse(site_config) == site_config.enabled # <<FALSE>>

\* _get_enabled_sites has returned the list the run processes
SitesResolved == sites # <<>>

\* C13 as stated: the sites processed are those whose entry carries
\* enabled: true, and exactly rightmove when no entry does (no sites section,
\* every site disabled, or entries without an enabled flag).
C13_ExplicitlyEnabledSites ==
  SitesResolved =>
    sites = IF SelectSeq(SiteEntries, FlagTrue) = <<>>
              THEN <<N_rightmove>>
              ELSE NamesOf(SelectSeq(SiteEntries, FlagTrue))

\* C13 amended: the sites processed are those whose entry is not disabled,
\* an entry without an enabled flag counting as enabled, in config order;
\* exactly rightmove when there is no such entry (no sites section, or every
\* site carrying enabled: false).
C13_SiteResolution ==
  SitesResolved =>
    sites = IF SelectSeq(SiteEntries, FlagNotFalse) = <<>>
              THEN <<N_rightmove>>
              ELSE NamesOf(SelectSeq(SiteEntries, FlagNotFalse))

\* the only entry that is not disabled has no enabled flag: it is processed
C13_Witness ==
  /\ pc = "fetch"
  /\ SiteEntries = <<Site(N_spareroom, <<>>), Site(N_onthemarket, <<FALSE>>)>>
  /\ sites = <<N_spareroom>>

\* some adapter's build_url (and then possibly fetch_listings and
\* parse_listings) has been invoked
AdapterInvoked == \E i \in 1..Len(outcomes) : outcomes[i].kind # "no_adapter"

\* _save_seen_listings has opened seen_listings.csv for writing
StoreFileWritten == \E i \in 1..Len(trace) : trace[i] = "save"

\* C14: a config file that cannot be read or parsed is fatal: no adapter stage
\* is invoked and seen_listings.csv is not written, whichever script started
\* the run.
C14_ConfigLoadFatal ==
  config_file = <<>> => (~ AdapterInvoked /\ ~ StoreFileWritten)

\* run_scraper reached the end of its try block
RunCompleted == pc = "done" /\ trace # <<>> /\ trace[Len(trace)] = "save"

\* C19: seen_listings.csv is read only when the scanner is constructed and
\* written only by the save that ends run_scraper: the file's content changes
\* in no step but that save, the in-memory store is set from the file in no
\* step after construction, and a run that completes has saved exactly once.
C19_SavedOnceAtEnd ==
  /\ [][/\ seen_file' # seen_file => (pc = "save" /\ pc' = "done")
        /\ (seen_listings' # seen_listings /\ pc # "filter")
             => (pc \in {"start", "construct"} /\ seen_listings' = seen_file)
       ]_vars
  /\ [](RunCompleted =>
          Cardinality({i \in 1..Len(trace) : trace[i] = "save"}) = 1)

\* before the save: ids registered by filter_listings are in memory only,
\* the file is as it was loaded
C19_Witness ==
  /\ pc = "save"
  /\ trace = <<"fetch", "filter">>
  /\ DOMAIN seen_file = {"rm-1"}
  /\ DOMAIN seen_listings = {"rm-1", "rm-3"}

\* filter_listings raised: fetch_listings had returned, the run is over and
\* no later stage was reached
FilterRaised == pc = "done" /\ trace = <<"fetch">>

\* C29: when filter_listings raises, run_scraper skips the save:
\* seen_listings.csv is left as it was by the failing step, the run ends
\* (returning normally) without having written the file, and the ids
\* registered before the failure stay in memory only.
C29_FailedFilterSkipsSave ==
  /\ [][(pc = "filter" /\ pc' = "done") =>
          (seen_file' = seen_file /\ DOMAIN seen_listings \subseteq
                                       DOMAIN seen_listings')]_vars
  /\ [](FilterRaised => (~ StoreFileWritten /\ run_result = "returned"))

\* the listing rm-3 passed and was registered, then a listing without id
\* raised: rm-3 is in the in-memory store and not in the file
C29_Witness ==
  /\ FilterRaised
  /\ all_listings = <<L_1100, L_NoId>>
  /\ "rm-3" \in DOMAIN seen_listings
  /\ "rm-3" \notin DOMAIN seen_file

\* C4: in every run that completes without error the notifier is invoked with
\* the filtered listings after filter_listings has returned and before the
\* store is saved (stated for the runs whose filtered list is not empty).
C4_NotifyBetweenFilterAndSave ==
  (RunCompleted /\ filtered_listings # <<>>) =>
    /\ trace = <<"fetch", "filter", "notify", "save">>
    /\ notified = <<filtered_listings>>

-----------------------------------------------------------------------------
(* Claims on the adapters' parse_listings, under SpecParse *)

ParsedBy(a) == a \in DOMAIN pl_results

\* C15: across the five adapters, two listings with different source values
\* never have the same id, whatever the raw identifiers.
C15_IdNamespacing ==
  \A a, b \in DOMAIN pl_results :
    \A i \in 1..Len(pl_results[a].listings) :
      \A j \in 1..Len(pl_results[b].listings) :
        pl_results[a].listings[i].source # pl_results[b].listings[j].source
          => pl_results[a].listings[i].id # pl_results[b].listings[j].id

\* a candidate every field of which can be extracted; the adapters that
\* require an identifier of the site need it present
NeedsRawId(a) == a \in {N_zoopla, N_onthemarket, N_openrent}

WellFormed(a, item) ==
  ~ item.raises /\ (NeedsRawId(a) => item.id # <<>>)

WellFormedOf(a, items) ==
  SubseqAt(items, {i \in 1..Len(items) : WellFormed(a, items[i])})

\* the candidates adapter a reads from the document: the properties of the
\* embedded JSON for Rightmove, the cards for the others, Zoopla turning to
\* the embedded JSON when no card is well-formed
CandidatesOf(a, doc) ==
  IF a = N_rightmove THEN doc.props
  ELSE IF a = N_zoopla /\ WellFormedOf(a, doc.cards) = <<>> THEN doc.props
  ELSE doc.cards

EndsWith(text, suffix) ==
  /\ Len(suffix) <= Len(text)
  /\ SubSeq(text, Len(text) - Len(suffix) + 1, Len(text)) = suffix

\* C20: in every adapter's parse_listings a candidate whose extraction fails
\* is dropped alone: the call does not raise, and its result has one listing
\* for each well-formed candidate, in document order, carrying that
\* candidate's identifier.
C20_PerItemIsolation ==
  \A a \in DOMAIN pl_results :
    LET wf == WellFormedOf(a, CandidatesOf(a, pl_doc[1]))
        ls == pl_results[a].listings
    IN /\ ~ pl_results[a].raised
       /\ Len(ls) = Len(wf)
       /\ \A i \in 1..Len(ls) :
            /\ ls[i].source = a
            /\ wf[i].id # <<>> => EndsWith(ls[i].id, wf[i].id[1])

\* all five adapters have parsed a document whose first candidate fails and
\* whose second is well-formed: each returned the second one's listing
C20_Witness ==
  /\ DOMAIN pl_results = AdapterNames
  /\ pl_doc[1].cards = <<Item(<<R_7>>, TRUE), Item(<<R_otm7>>, FALSE)>>
  /\ pl_doc[1].props = <<Item(<<R_7>>, TRUE), Item(<<R_otm7>>, FALSE)>>
  /\ \A a \in AdapterNames :
       /\ Len(pl_results[a].listings) = 1
       /\ pl_results[a].errors = 1

\* the candidates the fallback rule selects: the cards the selectors find
\* when at least one of them gives a listing, the embedded data otherwise
FallbackCandidates(a, doc) ==
  IF WellFormedOf(a, doc.cards) # <<>> THEN doc.cards ELSE doc.props

\* adapter a's result is the listings of the candidates the rule selects
FollowsFallbackRule(a) ==
  LET wf == WellFormedOf(a, FallbackCandidates(a, pl_doc[1]))
      ls == pl_results[a].listings
  IN /\ Len(ls) = Len(wf)
     /\ \A i \in 1..Len(ls) :
          wf[i].id # <<>> => EndsWith(ls[i].id, wf[i].id[1])

\* C21: each of the five adapters' parse_listings returns the listings of
\* the embedded structured data exactly when the selector-based strategy
\* yields no listing, and the selector-based listings unchanged when it
\* yields at least one.
C21_FallbackParsing ==
  \A a \in DOMAIN pl_results : FollowsFallbackRule(a)

-----------------------------------------------------------------------------
(* Claims on parsing a document twice, under SpecReparse *)

ListingIds(result) ==
  [i \in 1..Len(result.listings) |-> result.listings[i].id]

\* C28: for every adapter, the second parse of a document yields listings
\* with the same ids as the first, so every id the first parse produced (and
\* filter_listings may have registered) is met again.
C28_IdDeterminism ==
  \A a \in DOMAIN pl_again :
    ListingIds(pl_again[a]) = ListingIds(pl_results[a])

-----------------------------------------------------------------------------
(* Claims on get_sort_parameter and build_url, under SpecUrl *)

\* the preferences each adapter has an entry for in its sort mapping
MappedPreferences(a) ==
  IF a = N_zoopla THEN {} ELSE DOMAIN SortMapping(a)

\* C16: for every adapter and every documented sort preference the adapter
\* has no mapping for, get_sort_parameter() returns the fragment the adapter
\* returns for the preference default, and build_url() returns the URL it
\* returns under default.
C16_SortDegradation ==
  \A sort_type \in DOMAIN url_results :
    (sort_type \notin MappedPreferences(url_adapter[1])
       /\ "default" \in DOMAIN url_results)
      => /\ url_results[sort_type].fragment = url_results["default"].fragment
         /\ url_results[sort_type].url = url_results["default"].url

\* Rightmove has no mapping for last_updated: the URL ends in the fragment of
\* default, sortType=6, and differs from the URL under oldest_first
C16_Witness ==
  /\ url_adapter = <<N_rightmove>>
  /\ DOMAIN url_results = SortPreferences
  /\ url_results["last_updated"].fragment = "sortType=6"
  /\ url_results["last_updated"].url = url_results["default"].url
  /\ url_results["oldest_first"].url # url_results["default"].url

\* the URL fragments after which each adapter writes its maximum price
\* (SpareroomAdapter has no such parameter)
MaxPriceKeys == {"&maxPrice=", "price_max=", "&max-price=", "&prices_max="}

StartsWith(url, prefix) ==
  Len(prefix) <= Len(url) /\ SubSeq(url, 1, Len(prefix)) = prefix

\* url is built on the site URL site_url and, where the adapter has a
\* maximum price, carries max_price as its value
UrlUses(url, site_url, max_price) ==
  /\ StartsWith(url, site_url)
  /\ \A i \in 1..Len(url) :
       url[i] \in MaxPriceKeys => (i < Len(url) /\ url[i + 1] = max_price)

\* C25: the URL build_url returns is built on the search_url / base_url and
\* carries the parameter values that the site's entry under "sites" sets,
\* and the adapter's built-in default for each one the entry leaves unset.
C25_UrlFromSiteEntry ==
  \A sort_type \in DOMAIN url_results :
    LET a == url_adapter[1]
        set == url_params[1].in_sites
    IN UrlUses(url_results[sort_type].url,
               IF set.site_url = <<>> THEN DefaultSiteUrl(a)
               ELSE set.site_url[1],
               IF set.max_price = <<>> THEN DefaultMaxPrice(a)
               ELSE set.max_price[1])

-----------------------------------------------------------------------------
(* Claims on get_sort_parameter across adapters, under SpecSort *)

\* C26: under the preference newest_first any two different adapters return
\* two different URL fragments from get_sort_parameter.
C26_NewestFirstDistinct ==
  st_type = <<"newest_first">> =>
    \A a, b \in DOMAIN st_fragments :
      a # b => st_fragments[a] # st_fragments[b]

-----------------------------------------------------------------------------
(* Claims on the adapters' fetch_listings, under SpecFetch *)

\* the positions in ft_events of the requests for the search URL
UrlRequests ==
  {n \in 1..Len(ft_events) :
     ft_events[n].kind = "request" /\ ft_events[n].target = "url"}

FirstUrlRequest == CHOOSE n \in UrlRequests : \A m \in UrlRequests : n <= m
LastUrlRequest == CHOOSE n \in UrlRequests : \A m \in UrlRequests : m <= n

\* the call is over and each of its requests for the URL got a response
FetchAnswered ==
  /\ ft_pc = "done"
  /\ UrlRequests # {}
  /\ \A n \in UrlRequests : ~ ft_events[n].raised

\* C17: in every adapter's fetch_listings, a 403 answer to the request for
\* the URL is followed by exactly one more request for the URL, made with the
\* alternate identity, whose response is what the call returns; any other
\* answer is returned without a further request; a call makes at most three
\* requests.
C17_BoundedRetry ==
  /\ Cardinality({n \in 1..Len(ft_events) : ft_events[n].kind = "request"}) <= 3
  /\ FetchAnswered =>
       /\ ft_result = <<ReturnsText(LastUrlRequest)>>
       /\ IF ft_events[FirstUrlRequest].status = 403
            THEN /\ Cardinality(UrlRequests) = 2
                 /\ ft_events[LastUrlRequest].identity = "alternate"
            ELSE Cardinality(UrlRequests) = 1

\* a politeness delay occurs before event n and after the request before it
DelayedRequest(n) ==
  \E m \in 1..(n - 1) :
    /\ ft_events[m].kind = "sleep"
    /\ \A k \in (m + 1)..(n - 1) : ft_events[k].kind # "request"

\* C23: in every adapter's fetch_listings each request (the homepage visit,
\* the request for the URL and the retry) is preceded by a politeness delay
\* that lies between the previous request, if any, and that request.
C23_PolitenessDelay ==
  \A n \in 1..Len(ft_events) :
    ft_events[n].kind = "request" => DelayedRequest(n)

-----------------------------------------------------------------------------
(* Claims on overlapping runs, under SpecPair *)

\* both processes loaded the file before either saved, and both have saved
OverlappingRunsSaved ==
  /\ Len(pr_saved) = 2
  /\ \A p \in Procs : pr_loaded[p].saves_before = 0

\* C18: when two runs both load seen_listings.csv before either saves, the
\* file after both saves (the last one succeeding) is the in-memory store of
\* the run that saved last: an id only the first saver holds is not in it.
C18_LastWriterWins ==
  (OverlappingRunsSaved /\ pr_saved[2].ok) =>
    /\ seen_file = pr_seen[pr_saved[2].proc]
    /\ \A id \in DOMAIN pr_seen[pr_saved[1].proc] :
         id \notin DOMAIN pr_seen[pr_saved[2].proc]
           => id \notin DOMAIN seen_file

\* the first saver wrote an id it had registered; the second save dropped it
C18_Witness ==
  /\ OverlappingRunsSaved
  /\ pr_saved[1].ok /\ pr_saved[2].ok
  /\ \E id \in DOMAIN pr_seen[pr_saved[1].proc] :
       /\ id \notin DOMAIN pr_loaded[pr_saved[1].proc].store
       /\ id \notin DOMAIN seen_file

-----------------------------------------------------------------------------
(* Claims on notify_user, under SpecNotify *)

\* the first min(5, n) of the n listings, then the count of the n - 5
\* omitted ones exactly when n > 5
ConsoleFallback(listings) ==
  LET n == Len(listings)
      m == IF n < 5 THEN n ELSE 5
  IN [i \in 1..m |->
        [kind |-> "listing",
         title |-> IF listings[i].title = <<>> THEN T_Property
                   ELSE listings[i].title[1],
         address |-> IF listings[i].address = <<>> THEN <<>>
                     ELSE listings[i].address[1],
         count |-> 0]]
       \o (IF n > 5
             THEN <<[kind |-> "more", title |-> <<>>, address |-> <<>>,
                     count |-> n - 5]>>
             ELSE <<>>)

\* C22: notify_user never raises; when sending the e-mail fails it has
\* written to the console the first min(5, n) of its n listings, followed by
\* the count n - 5 exactly when n > 5; when the e-mail was sent it has written
\* nothing.
C22_NotifierFallback ==
  /\ nt_result # "raised"
  /\ nt_result = "returned" =>
       /\ nt_email = "fails" => nt_console = ConsoleFallback(nt_listings[1])
       /\ nt_email = "sent" => nt_console = <<>>

\* six listings, the e-mail failed: five are printed, then "1 more"
C22_Witness ==
  /\ nt_result = "returned" /\ nt_email = "fails"
  /\ Len(nt_listings[1]) = 6
  /\ Len(nt_console) = 6
  /\ nt_console[5].kind = "listing"
  /\ nt_console[6].kind = "more" /\ nt_console[6].count = 1

====
